---- MODULE Spec2Model ----
(***************************************************************************)
(* Frame loaders of loader.py: ImageLoader (a directory of numbered        *)
(* images), VideoLoader (a cv2.VideoCapture stream with a one-slot         *)
(* buffer) and get_loader, which picks one of them from a configuration    *)
(* record.  A frame of a video stream is named by its position 1..frames.  *)
(***************************************************************************)
EXTENDS Integers, Sequences, FiniteSets, TLC

VARIABLES store, video_identifier, loader, frame_count_cap, last, prev,
          count, in_rounds, in_loop, twin, syscalls,
          returned, lost

vars == <<store, video_identifier, loader, frame_count_cap, last, prev,
          count, in_rounds, in_loop, twin, syscalls, returned, lost>>

----------------------------------------------------------------------------
(* Bounds of the model *)

MaxOffset == 1        \* image_number_offset ranges over -MaxNegOffset..MaxOffset
MaxNegOffset == 1
MaxFrames == 3        \* frames of the longest video stream
MaxEntries == 2       \* entries of the fullest image directory
MaxOps == 5           \* calls the driver makes on a loader
MaxSetIndex == 1      \* set_index arguments range over -1..MaxSetIndex

(* self._image = None; cv2 hands back None for a frame it cannot decode *)
None == 0

Min(a, b) == IF a < b THEN a ELSE b
Max(a, b) == IF a < b THEN b ELSE a

----------------------------------------------------------------------------
(* The configuration store and what lies on disk *)

Offsets == (0 - MaxNegOffset)..MaxOffset
DigitCounts == {3, 4, 5, 6}

\* a directory: absent, or present with a number of entries
Directories == {[exists |-> FALSE, entries |-> 0]}
                 \cup {[exists |-> TRUE, entries |-> n] : n \in 0..MaxEntries}

\* a video file: one cv2 cannot open, or a stream of `frames` frames
VideoFiles == {[openable |-> FALSE, frames |-> 0]}
                 \cup {[openable |-> TRUE, frames |-> n] : n \in 0..MaxFrames}

Configs == [image_number_offset : Offsets,
            image_dataset : Directories,
            image_path_prefix : {"img_"},
            image_path_digits : DigitCounts,
            video_path : VideoFiles]

StoreKeys == {"video1"}
Identifiers == {"video1", "video2"}

----------------------------------------------------------------------------
(* str.format of an integer with the format spec 0W (f'{i:05}'): the sign,  *)
(* then zeros up to a total width of W, then the decimal digits; a number  *)
(* wider than W is not cut.                                                *)

DigitChars == <<"0", "1", "2", "3", "4", "5", "6", "7", "8", "9">>

RECURSIVE Decimal(_)
Decimal(n) == IF n < 10 THEN <<DigitChars[n + 1]>>
              ELSE Decimal(n \div 10) \o <<DigitChars[(n % 10) + 1]>>

ZeroPad(i, width) ==
    LET sign == IF i < 0 THEN <<"-">> ELSE <<>>
        digits == Decimal(IF i < 0 THEN 0 - i ELSE i)
        fill == Max(width - Len(sign) - Len(digits), 0)
    IN  sign \o [j \in 1..fill |-> "0"] \o digits

----------------------------------------------------------------------------
(* cv2.VideoCapture: opened, pos frames decoded so far out of `frames`;     *)
(* reads counts the calls of read(), releases the calls of release().      *)

VideoCapture(file) ==
    [opened |-> file.openable, pos |-> 0, frames |-> file.frames,
     reads |-> 0, releases |-> 0]

\* cap.read(): (ret, image); a closed or exhausted capture gives (False, None)
CapRead(cap) ==
    IF cap.opened /\ cap.pos < cap.frames
    THEN [cap |-> [cap EXCEPT !.pos = @ + 1, !.reads = @ + 1],
          ret |-> TRUE, image |-> cap.pos + 1]
    ELSE [cap |-> [cap EXCEPT !.reads = @ + 1], ret |-> FALSE, image |-> None]

CapRelease(cap) == [cap EXCEPT !.opened = FALSE, !.releases = @ + 1]

\* cv2.VideoCapture.get(cap, CAP_PROP_FRAME_COUNT); 0 for a capture not opened
CapFrameCount(cap) == IF cap.opened THEN cap.frames ELSE 0

----------------------------------------------------------------------------
(* ImageLoader *)

NoPath == <<>>

ImageLoader(config) ==
    [kind |-> "ImageLoader",
     offset |-> config.image_number_offset,
     index |-> 0,
     image_dataset |-> config.image_dataset,
     prefix |-> config.image_path_prefix,
     digits |-> config.image_path_digits,
     image_number |-> config.image_dataset.entries]

\* mutant: the comparison lets one read too many through
ImageLoader_has_images_le(self) ==
    [self |-> self, ret |-> self.index <= self.image_number]

ImageLoader_has_images(self) ==
    [self |-> self, ret |-> self.index < self.image_number]

\* mutant: the configured digit count is used as the width whatever it is
ImageLoader_path_any_width(self, i) ==
    <<"image_dataset", "/", self.prefix>> \o ZeroPad(i + self.offset, self.digits)
        \o <<".jpg">>

ImageLoader_path(self, i) ==
    LET n == i + self.offset
    IN  IF self.digits = 5 THEN <<"image_dataset", "/", self.prefix>> \o ZeroPad(n, 5) \o <<".jpg">>
        ELSE IF self.digits = 3 THEN <<"image_dataset", "/", self.prefix>> \o ZeroPad(n, 3) \o <<".jpg">>
        ELSE <<"image_dataset", "/", self.prefix>> \o ZeroPad(n, 4) \o <<".jpg">>

ImageLoader_set_index(self, index) == [self EXCEPT !.index = index]

\* mutant: the path is built before the index is advanced
ImageLoader_read_stale(self) ==
    [self |-> [self EXCEPT !.index = @ + 1],
     path |-> ImageLoader_path(self, self.index)]

\* read: the frame is whatever cv2.imread finds at the path; the path is kept
ImageLoader_read(self) ==
    LET s == [self EXCEPT !.index = @ + 1]
    IN  [self |-> s, path |-> ImageLoader_path(s, s.index)]

\* mutant: end rewinds the loader
ImageLoader_end_rewind(self) == [self EXCEPT !.index = 0]

ImageLoader_end(self) == self

----------------------------------------------------------------------------
(* VideoLoader *)

\* mutant: no isOpened() check before decoding
VideoLoader_has_images_unguarded(self) ==
    LET r == CapRead(self.cap)
    IN  [self |-> [self EXCEPT !.cap = r.cap, !.image = r.image,
                               !.image_read = FALSE],
         ret |-> r.ret]

\* mutant: has_images forgets to mark the buffered image as unread
VideoLoader_has_images_keeps_flag(self) ==
    IF ~self.cap.opened
    THEN [self |-> self, ret |-> FALSE]
    ELSE LET r == CapRead(self.cap)
         IN  [self |-> [self EXCEPT !.cap = r.cap, !.image = r.image],
              ret |-> r.ret]

VideoLoader_has_images(self) ==
    IF ~self.cap.opened
    THEN [self |-> self, ret |-> FALSE]
    ELSE LET r == CapRead(self.cap)
         IN  [self |-> [self EXCEPT !.cap = r.cap, !.image = r.image,
                                    !.image_read = FALSE],
              ret |-> r.ret]

\* mutant: read forgets to mark the buffered image as read
VideoLoader_read_keeps_flag(self) ==
    LET s1 == [self EXCEPT !.index = @ + 1]
        r == CapRead(s1.cap)
        s2 == IF s1.image_read
              THEN [s1 EXCEPT !.cap = r.cap, !.image = r.image]
              ELSE s1
    IN  [self |-> s2, ret |-> s2.image]

VideoLoader_read(self) ==
    LET s1 == [self EXCEPT !.index = @ + 1]
        r == CapRead(s1.cap)
        s2 == IF s1.image_read
              THEN [s1 EXCEPT !.cap = r.cap, !.image = r.image]
              ELSE s1
        s3 == [s2 EXCEPT !.image_read = TRUE]
    IN  [self |-> s3, ret |-> s3.image]

\* mutant: end also rewinds the cursor
VideoLoader_end_reset(self) == [self EXCEPT !.cap = CapRelease(@), !.index = 0]

VideoLoader_end(self) == [self EXCEPT !.cap = CapRelease(@)]

\* mutant: the skip loop reads the buffer without counting the frame
RECURSIVE SkipOffset_uncounted(_, _)
SkipOffset_uncounted(self, n) ==
    IF n <= 0 THEN self
    ELSE LET h == VideoLoader_has_images(self)
         IN  SkipOffset_uncounted(
                 IF h.ret THEN [h.self EXCEPT !.image_read = TRUE] ELSE h.self,
                 n - 1)

\* for _ in range(n): if self.has_images(): self.read()
RECURSIVE SkipOffset(_, _)
SkipOffset(self, n) ==
    IF n <= 0 THEN self
    ELSE LET h == VideoLoader_has_images(self)
         IN  SkipOffset(IF h.ret THEN VideoLoader_read(h.self).self ELSE h.self,
                        n - 1)

VideoLoader(config) ==
    LET cap == VideoCapture(config.video_path)
        self == [kind |-> "VideoLoader",
                 offset |-> config.image_number_offset,
                 index |-> 0,
                 cap |-> VideoCapture(config.video_path),
                 image |-> None,
                 image_read |-> FALSE,
                 total_frames |-> CapFrameCount(cap) + 1]
    IN  SkipOffset(self, self.offset + 1)

----------------------------------------------------------------------------
(* get_loader *)

\* mutant: a video that opens is preferred to the extracted images
get_loader_prefers_video(config_store, identifier) ==
    IF identifier \notin DOMAIN config_store
    THEN [kind |-> "KeyError"]
    ELSE LET config == config_store[identifier]
         IN  IF ~config.image_dataset.exists
             THEN [kind |-> "FileNotFoundError"]
             ELSE IF config.image_dataset.entries > 0 /\ ~config.video_path.openable
                  THEN ImageLoader(config)
                  ELSE VideoLoader(config)

get_loader(config_store, identifier) ==
    IF identifier \notin DOMAIN config_store
    THEN [kind |-> "KeyError"]
    ELSE LET config == config_store[identifier]
         IN  IF ~config.image_dataset.exists
             THEN [kind |-> "FileNotFoundError"]
             ELSE IF config.image_dataset.entries > 0
                  THEN ImageLoader(config)
                  ELSE VideoLoader(config)

\* mutant: the image directory is scanned before the session is looked up
get_loader_calls_scan_first(config_store, identifier) ==
    <<"open", "json.load", "os.scandir">>

\* the calls get_loader makes on the file system and on cv2, in order, up to
\* its return or to the exception that ends it
get_loader_calls(config_store, identifier) ==
    <<"open", "json.load">> \o
    IF identifier \notin DOMAIN config_store
    THEN <<>>
    ELSE LET config == config_store[identifier]
         IN  <<"os.scandir">> \o
             IF ~config.image_dataset.exists
             THEN <<>>
             ELSE IF config.image_dataset.entries > 0
                  THEN <<"os.listdir">>
                  ELSE <<"cv2.VideoCapture", "cv2.VideoCapture",
                         "cv2.VideoCapture.get">>

IsImage == loader.kind = "ImageLoader"
IsVideo == loader.kind = "VideoLoader"

----------------------------------------------------------------------------
(* The driver's calls.  last and prev record the two latest calls: the      *)
(* operation, its argument, what it returned and the cap.read() calls it   *)
(* made.  twin is an identically constructed loader driven by read()       *)
(* alone, one read for each read of the loader.  returned holds the video  *)
(* frames read() has handed out so far, lost the frames has_images()       *)
(* decoded and a later has_images() overwrote before any read().           *)

Call(op, arg, ok, frame, path, decodes) ==
    [op |-> op, arg |-> arg, ok |-> ok, frame |-> frame, path |-> path,
     decodes |-> decodes]

Reads(self) == IF self.kind = "VideoLoader" THEN self.cap.reads ELSE 0

\* the local `cap` of VideoLoader.__init__ that queries the frame count
FrameCountCap(ldr, config) ==
    IF ldr.kind = "VideoLoader"
    THEN [acquired |-> TRUE, opened |-> config.video_path.openable, releases |-> 0]
    ELSE [acquired |-> FALSE, opened |-> FALSE, releases |-> 0]

\* the frames the skip loop of VideoLoader.__init__ read: each of its
\* has_images() that decoded a frame is followed by its read()
ConstructorReads(ldr) ==
    IF ldr.kind = "VideoLoader" THEN 1..ldr.cap.pos ELSE {}

\* the frame a has_images() call overwrites unread, if any
Overwritten(before, after) ==
    IF /\ Reads(after) > Reads(before)
       /\ ~before.image_read /\ before.image # None
    THEN {before.image} ELSE {}

Init ==
    /\ \E config \in Configs : store = [k \in StoreKeys |-> config]
    /\ video_identifier \in Identifiers
    /\ loader = get_loader(store, video_identifier)
    /\ twin = loader
    /\ frame_count_cap = FrameCountCap(loader, store["video1"])
    /\ last = Call("new", 0, FALSE, None, NoPath, 0)
    /\ prev = [op |-> "new", arg |-> 0, frame |-> None, decodes |-> 0]
    /\ returned = ConstructorReads(loader)
    /\ lost = {}
    /\ count = [ops |-> 0, reads |-> 0]
    /\ in_rounds = TRUE
    /\ in_loop = TRUE
    /\ syscalls = get_loader_calls(store, video_identifier)

Step(l, c) ==
    /\ prev' = [op |-> last.op, arg |-> last.arg, frame |-> last.frame,
                decodes |-> last.decodes]
    /\ last' = c
    /\ loader' = l
    /\ count' = [ops |-> count.ops + 1,
                 reads |-> IF c.op = "read" THEN count.reads + 1 ELSE count.reads]
    /\ in_rounds' = (in_rounds /\ IF c.op = "has_images" THEN last.op \in {"new", "read"}
                                  ELSE c.op = "read" /\ last.op = "has_images")
    /\ in_loop' = (in_loop /\ IF c.op = "has_images" THEN last.op \in {"new", "read"}
                              ELSE c.op = "read" /\ last.op = "has_images" /\ last.ok)
    /\ UNCHANGED <<store, video_identifier, syscalls>>

Ready == loader.kind \in {"ImageLoader", "VideoLoader"} /\ count.ops < MaxOps

ImageHasImages ==
    /\ Ready /\ IsImage
    /\ LET r == ImageLoader_has_images(loader)
       IN  Step(r.self, Call("has_images", 0, r.ret, None, NoPath, 0))
    /\ UNCHANGED <<twin, frame_count_cap, returned, lost>>

ImageRead ==
    /\ Ready /\ IsImage
    /\ LET r == ImageLoader_read(loader)
       IN  Step(r.self, Call("read", 0, FALSE, None, r.path, 0))
    /\ UNCHANGED <<twin, frame_count_cap, returned, lost>>

ImageSetIndex ==
    /\ Ready /\ IsImage
    /\ \E v \in (0 - 1)..MaxSetIndex :
          Step(ImageLoader_set_index(loader, v),
               Call("set_index", v, FALSE, None, NoPath, 0))
    /\ UNCHANGED <<twin, frame_count_cap, returned, lost>>

ImageEnd ==
    /\ Ready /\ IsImage
    /\ Step(ImageLoader_end(loader), Call("end", 0, FALSE, None, NoPath, 0))
    /\ UNCHANGED <<twin, frame_count_cap, returned, lost>>

VideoHasImages ==
    /\ Ready /\ IsVideo
    /\ LET r == VideoLoader_has_images(loader)
       IN  /\ Step(r.self, Call("has_images", 0, r.ret,
                                 IF Reads(r.self) > Reads(loader)
                                 THEN r.self.image ELSE None,
                                 NoPath, Reads(r.self) - Reads(loader)))
           /\ lost' = lost \cup Overwritten(loader, r.self)
    /\ UNCHANGED <<twin, frame_count_cap, returned>>

VideoRead ==
    /\ Ready /\ IsVideo
    /\ LET r == VideoLoader_read(loader)
       IN  /\ Step(r.self, Call("read", 0, FALSE, r.ret, NoPath,
                                 Reads(r.self) - Reads(loader)))
           /\ returned' = returned \cup (IF r.ret = None THEN {} ELSE {r.ret})
    /\ twin' = VideoLoader_read(twin).self
    /\ UNCHANGED <<frame_count_cap, lost>>

VideoEnd ==
    /\ Ready /\ IsVideo
    /\ Step(VideoLoader_end(loader), Call("end", 0, FALSE, None, NoPath, 0))
    /\ UNCHANGED <<twin, frame_count_cap, returned, lost>>

\* the interpreter finalizes the unreferenced local capture at a time of its
\* choosing; nothing in loader.py releases it
Finalize ==
    /\ IsVideo /\ frame_count_cap.opened
    /\ frame_count_cap' = [frame_count_cap EXCEPT !.opened = FALSE]
    /\ UNCHANGED <<store, video_identifier, loader, last, prev, count,
                   in_rounds, in_loop, twin, syscalls, returned, lost>>

Next ==
    \/ ImageHasImages
    \/ ImageRead
    \/ ImageSetIndex
    \/ ImageEnd
    \/ VideoHasImages
    \/ VideoRead
    \/ VideoEnd
    \/ Finalize

Spec == Init /\ [][Next]_vars

----------------------------------------------------------------------------
(* Reading a path back: the file number between the prefix and ".jpg" *)

DigitValue(c) == CHOOSE d \in 0..9 : DigitChars[d + 1] = c

RECURSIVE ParseDigits(_)
ParseDigits(chars) ==
    IF chars = <<>> THEN 0
    ELSE 10 * ParseDigits(SubSeq(chars, 1, Len(chars) - 1))
           + DigitValue(chars[Len(chars)])

ParseInt(chars) ==
    IF chars # <<>> /\ chars[1] = "-"
    THEN 0 - ParseDigits(Tail(chars))
    ELSE ParseDigits(chars)

PathNumber(path) == ParseInt(SubSeq(path, 4, Len(path) - 1))

Config == store["video1"]
Found == video_identifier \in DOMAIN store

----------------------------------------------------------------------------
(* C1: on a video source, the frames returned by n rounds of has_images()   *)
(* then read() equal, frame for frame, the frames returned by n calls of   *)
(* read() alone on an identically constructed source.                      *)
C1_RoundsEqualReadsAlone ==
    (IsVideo /\ in_rounds /\ last.op = "read") => last.frame = twin.image

(* C2: on a video source whose capture is open, a read() that hands out a   *)
(* frame, or is made while frames remain, costs one cap.read() in all:     *)
(* none of its own right after a has_images() that made one, and one of    *)
(* its own otherwise, the first read after construction included.          *)
C2_OneDecodePerFrame ==
    (/\ IsVideo /\ last.op = "read" /\ loader.cap.opened
     /\ (last.frame # None \/ loader.cap.pos < loader.cap.frames))
    => IF prev.op = "has_images"
       THEN prev.decodes = 1 /\ last.decodes = 0
       ELSE last.decodes = 1

(* C3: a video source built with offset o over an opened stream of L frames *)
(* has consumed min(o+1, L) frames when the constructor returns, and when  *)
(* L > o+1 the driver's first read(), alone or after one has_images(),     *)
(* returns frame o+2.                                                      *)
C3_SkipOnConstruction ==
    (IsVideo /\ Config.video_path.openable) =>
       LET o == Config.image_number_offset
           L == Config.video_path.frames
       IN  /\ count.ops = 0 => loader.cap.pos = Min(o + 1, L)
           /\ (/\ L > o + 1 /\ last.op = "read" /\ count.reads = 1
               /\ \/ count.ops = 1
                  \/ count.ops = 2 /\ prev.op = "has_images")
              => last.frame = o + 2

(* C4: a directory source over N entries with offset o, driven by          *)
(* `while has_images(): read()`: has_images() is true before each of the   *)
(* first N reads and false after the N-th, so at most N reads happen, and  *)
(* the k-th read addresses the file numbered k + o.                        *)
C4_DirectoryLoop ==
    (IsImage /\ in_loop) =>
       /\ count.reads <= loader.image_number
       /\ loader.image_number = Config.image_dataset.entries
       /\ last.op = "has_images" => last.ok = (count.reads < loader.image_number)
       /\ last.op = "read" =>
             PathNumber(last.path) = count.reads + Config.image_number_offset

C4_Witness ==
    /\ IsImage /\ in_loop /\ last.op = "has_images" /\ ~last.ok
    /\ count.reads = 2 /\ Config.image_number_offset = 1

(* C5: a freshly constructed loader of either kind shows index = 0 before  *)
(* the driver's first call.                                                *)
C5_FreshIndexZero ==
    ((IsImage \/ IsVideo) /\ count.ops = 0) => loader.index = 0

(* C6: once end() has been called once on a video source, every capture    *)
(* the constructor opened is closed, and was released by end() exactly     *)
(* once.                                                                   *)
C6_HandlesReleasedByEnd ==
    (IsVideo /\ Config.video_path.openable /\ loader.cap.releases = 1) =>
       /\ ~loader.cap.opened
       /\ ~frame_count_cap.opened
       /\ frame_count_cap.releases = 1

(* C7: on a directory source set_index(v) followed at once by read()       *)
(* addresses the file numbered v + 1 + offset and leaves index = v + 1,    *)
(* whatever came before.                                                   *)
C7_SetIndexThenRead ==
    (IsImage /\ last.op = "read" /\ prev.op = "set_index") =>
       /\ loader.index = prev.arg + 1
       /\ PathNumber(last.path) = prev.arg + 1 + Config.image_number_offset

C7_Witness ==
    /\ IsImage /\ last.op = "read" /\ prev.op = "set_index"
    /\ prev.arg = 0 - 1 /\ count.reads >= 3 /\ Config.image_number_offset # 0

(* C8: for a session found in the store, get_loader returns an ImageLoader *)
(* exactly when the image directory has at least one entry and a           *)
(* VideoLoader exactly when it exists and has none, whatever the offset    *)
(* and the video file are.                                                 *)
C8_Selector ==
    Found =>
       /\ IsImage <=> (Config.image_dataset.exists /\ Config.image_dataset.entries >= 1)
       /\ IsVideo <=> (Config.image_dataset.exists /\ Config.image_dataset.entries = 0)

C8_Witness ==
    /\ Found /\ IsImage /\ count.ops = 0
    /\ Config.video_path.openable /\ Config.video_path.frames > 0
    /\ Config.image_number_offset # 0

(* C9: on a video source whose file could not be opened, has_images()      *)
(* returns false without a decode and every read() returns no image.       *)
C9_UnopenedVideo ==
    (IsVideo /\ ~Config.video_path.openable) =>
       /\ last.op = "has_images" => (~last.ok /\ last.decodes = 0)
       /\ last.op = "read" => last.frame = None
       /\ loader.image = None

C9_Witness ==
    /\ IsVideo /\ ~Config.video_path.openable
    /\ last.op = "read" /\ prev.op = "has_images" /\ count.reads >= 2

(* C10: on a directory source has_images() and end() leave the loader as   *)
(* it was, has_images() returns index < image_number, and so every call    *)
(* after any number of end() calls acts on the state it would have had     *)
(* without them.                                                           *)
C10_DirectoryHasAndEndPure ==
    [][(IsImage /\ count'.ops = count.ops + 1 /\ last'.op \in {"has_images", "end"})
       => /\ loader' = loader
          /\ last'.op = "has_images" => last'.ok = (loader.index < loader.image_number)]_vars

C10_Witness ==
    /\ IsImage /\ last.op = "end" /\ prev.op = "end"
    /\ loader.index > 0 /\ count.ops >= 4

Called(name) == \E j \in 1..Len(syscalls) : syscalls[j] = name

(* C11: get_loader called with a session key that is not in the store      *)
(* ends in a not-found error (KeyError) and builds no loader: it scans no  *)
(* directory and opens no capture.                                         *)
C11_AbsentKey ==
    ~Found =>
       /\ loader.kind = "KeyError"
       /\ ~Called("os.scandir") /\ ~Called("os.listdir")
       /\ ~Called("cv2.VideoCapture")
       /\ ~frame_count_cap.acquired

C11_Witness ==
    /\ ~Found /\ loader.kind = "KeyError"
    /\ Config.image_dataset.exists /\ Config.video_path.openable
    /\ Called("json.load")

RECURSIVE DecimalLength(_)
DecimalLength(n) == IF n < 10 THEN 1 ELSE 1 + DecimalLength(n \div 10)

\* field width of the number of a path: 5 for 5 digits, 3 for 3, 4 otherwise
PadWidth(digits) == IF digits = 5 THEN 5 ELSE IF digits = 3 THEN 3 ELSE 4

(* C12: the path a directory source reads is directory/prefix<number>.jpg, *)
(* where the number is index + offset written in a zero-filled field whose *)
(* width depends on the configured digit count alone: 5 for 5, 3 for 3     *)
(* and 4 for any other value (a longer number is written in full).         *)
C12_PathFormat ==
    (IsImage /\ last.op = "read") =>
       LET n == loader.index + Config.image_number_offset
           field == SubSeq(last.path, 4, Len(last.path) - 1)
           natural == IF n < 0 THEN 1 + DecimalLength(0 - n) ELSE DecimalLength(n)
           figures == IF n < 0 THEN Tail(field) ELSE field
       IN  /\ SubSeq(last.path, 1, 3) = <<"image_dataset", "/", Config.image_path_prefix>>
           /\ last.path[Len(last.path)] = ".jpg"
           /\ Len(field) = Max(PadWidth(Config.image_path_digits), natural)
           /\ n < 0 => field[1] = "-"
           /\ \A j \in 1..Len(figures) : \E d \in 1..10 : DigitChars[d] = figures[j]
           /\ ParseInt(field) = n

C12_Witness ==
    /\ IsImage /\ last.op = "read" /\ Config.image_path_digits = 6
    /\ loader.index + Config.image_number_offset > 0
    /\ Len(last.path) = 8

(* C13: on a video source with an open capture every has_images() makes    *)
(* one decode and keeps its result as the only buffered image; after       *)
(* several has_images() calls in a row the read() that follows returns     *)
(* what the last of them decoded, without decoding again; the frames the   *)
(* earlier calls decoded are lost and no later read() returns them; and    *)
(* the decoded frames neither returned nor lost are at most the one in     *)
(* the buffer.                                                             *)
C13_OnlyLastProbeKept ==
    IsVideo =>
       /\ (last.op = "has_images" /\ loader.cap.opened) =>
             /\ last.decodes = 1
             /\ loader.image = last.frame /\ ~loader.image_read
       /\ (last.op = "read" /\ prev.op = "has_images" /\ loader.cap.opened) =>
             /\ last.frame = prev.frame
             /\ last.decodes = 0
       /\ last.op = "read" => last.frame \notin lost
       /\ returned \cap lost = {}
       /\ LET held == ((1..loader.cap.pos) \ returned) \ lost
          IN  /\ Cardinality(held) <= 1
              /\ held # {} => (held = {loader.image} /\ ~loader.image_read)

C13_Witness ==
    /\ IsVideo /\ loader.cap.opened
    /\ last.op = "read" /\ prev.op = "has_images"
    /\ Cardinality(lost) >= 2 /\ last.frame = 3

\* a call of the driver on a loader (not the interpreter's finalizer)
DriverCall == count'.ops = count.ops + 1

(* C14: index starts non-negative and, in every step, has_images() and     *)
(* end() leave it unchanged and read() adds exactly one, on both kinds of  *)
(* loader; set_index on a directory source is the only call that can       *)
(* lower it, so without set_index it never decreases or turns negative.    *)
C14_IndexMonotone ==
    /\ (IsImage \/ IsVideo) => loader.index >= 0
    /\ [][((IsImage \/ IsVideo) /\ DriverCall) =>
            /\ last'.op \in {"has_images", "end"} => loader'.index = loader.index
            /\ last'.op = "read" => loader'.index = loader.index + 1
            /\ last'.op # "set_index" =>
                  (loader'.index >= loader.index /\ (loader.index >= 0 => loader'.index >= 0))
            /\ last'.op = "set_index" => IsImage]_vars

C14_Witness ==
    /\ IsVideo /\ last.op = "end" /\ prev.op = "read" /\ loader.index >= 3

\* what has_images() would return in the current state
HasNext ==
    IF IsImage THEN ImageLoader_has_images(loader).ret
    ELSE VideoLoader_has_images(loader).ret

(* C15: once has_images() has returned false on a loader, it returns false *)
(* in every later call, whatever has_images(), read() and end() calls      *)
(* come in between, as long as set_index is not called.                    *)
C15_EndOfSourceStable ==
    [][((IsImage \/ IsVideo) /\ last'.op # "set_index"
          /\ ((last.op = "has_images" /\ ~last.ok) \/ ~HasNext))
       => /\ ~HasNext'
          /\ (DriverCall /\ last'.op = "has_images") => ~last'.ok]_vars

C15_Witness ==
    /\ IsVideo /\ loader.cap.opened /\ loader.cap.frames = 1
    /\ in_rounds /\ count.ops = 5
    /\ last.op = "has_images" /\ ~last.ok

(* C16: on a video source, under every interleaving of has_images(),       *)
(* read() and end(), a read() that returns a frame returns one that comes  *)
(* later in the stream than every frame a read() returned before, so no    *)
(* frame is returned twice.                                                *)
C16_FramesStrictlyIncreasing ==
    [][(IsVideo /\ DriverCall /\ last'.op = "read" /\ last'.frame # None)
       => /\ last'.frame \notin returned
          /\ \A f \in returned : f < last'.frame
          /\ returned' = returned \cup {last'.frame}]_vars

C16_Witness ==
    /\ IsVideo /\ last.op = "read" /\ last.frame = 3
    /\ loader.cap.releases >= 1 /\ lost # {}
    /\ Cardinality(returned) >= 2

(* C17: on a video source built with offset o >= 0 over an opened stream   *)
(* of more than o+1 frames, while no frame has been lost (has_images() was *)
(* never called twice with no read() in between), a read() that returns a  *)
(* frame and leaves index = i returns frame i of the stream, the frames    *)
(* the constructor skipped being counted.                                  *)
C17_IndexIsStreamPosition ==
    (/\ IsVideo /\ Config.video_path.openable
     /\ Config.image_number_offset >= 0
     /\ Config.video_path.frames > Config.image_number_offset + 1
     /\ lost = {}
     /\ last.op = "read" /\ last.frame # None)
    => last.frame = loader.index

C17_Witness ==
    /\ IsVideo /\ Config.image_number_offset = 1 /\ lost = {}
    /\ last.op = "read" /\ prev.op = "has_images"
    /\ last.frame = 3 /\ loader.index = 3


====
